---------------------------- MODULE Spec2Model ----------------------------
(***************************************************************************)
(* A model of src/app.py, the legal-document analysis toolkit.             *)
(*                                                                         *)
(* A Python str is modelled as a sequence of one-character strings, so     *)
(* that lower(), strip(), the "in" substring test, re.split and re.findall *)
(* are computed character by character, as the interpreter computes them.  *)
(* The result of the spaCy pipeline (an external library) is an input: a   *)
(* Doc is a sequence of sentences, each a sequence of tokens, plus the     *)
(* entity spans the recogniser reports; the text is what the tokens spell. *)
(***************************************************************************)
EXTENDS Integers, Sequences, FiniteSets, TLC

(***************************************************************************)
(* Characters and the str methods the program uses.  A character is a      *)
(* one-character string; a character beyond U+00FF, which a string         *)
(* constant cannot hold, is written by its code point ("U+212A").  The     *)
(* alphabet is U+0000..U+00FF, every other character str.isspace() holds   *)
(* of, the Arabic-Indic digits, and U+212A (KELVIN SIGN), U+0130, U+0131   *)
(* (dotted capital and dotless small I), U+017F (LONG S) and U+0307        *)
(* (COMBINING DOT ABOVE); the classes below are Python's on that alphabet. *)
(***************************************************************************)
\* LowerOf[c] is c.lower() for the characters c with a one-character
\* c.lower() other than c.
LowerOf ==
    "A" :> "a" @@ "B" :> "b" @@ "C" :> "c" @@ "D" :> "d" @@ "E" :> "e"
      @@ "F" :> "f" @@ "G" :> "g" @@ "H" :> "h" @@ "I" :> "i" @@ "J" :> "j"
      @@ "K" :> "k" @@ "L" :> "l" @@ "M" :> "m" @@ "N" :> "n" @@ "O" :> "o"
      @@ "P" :> "p" @@ "Q" :> "q" @@ "R" :> "r" @@ "S" :> "s" @@ "T" :> "t"
      @@ "U" :> "u" @@ "V" :> "v" @@ "W" :> "w" @@ "X" :> "x" @@ "Y" :> "y"
      @@ "Z" :> "z" @@ "À" :> "à" @@ "Á" :> "á" @@ "Â" :> "â" @@ "Ã" :> "ã"
      @@ "Ä" :> "ä" @@ "Å" :> "å" @@ "Æ" :> "æ" @@ "Ç" :> "ç" @@ "È" :> "è"
      @@ "É" :> "é" @@ "Ê" :> "ê" @@ "Ë" :> "ë" @@ "Ì" :> "ì" @@ "Í" :> "í"
      @@ "Î" :> "î" @@ "Ï" :> "ï" @@ "Ð" :> "ð" @@ "Ñ" :> "ñ" @@ "Ò" :> "ò"
      @@ "Ó" :> "ó" @@ "Ô" :> "ô" @@ "Õ" :> "õ" @@ "Ö" :> "ö" @@ "Ø" :> "ø"
      @@ "Ù" :> "ù" @@ "Ú" :> "ú" @@ "Û" :> "û" @@ "Ü" :> "ü" @@ "Ý" :> "ý"
      @@ "Þ" :> "þ" @@ "U+212A" :> "k"

UpperSet == DOMAIN LowerOf

\* The letters lower() leaves alone and that are the lower() of no
\* character of the alphabet, and U+0130, whose lower() is two characters.
OtherLetters ==
    {"ª", "µ", "º", "ß", "ÿ", "U+0130", "U+0131", "U+017F"}

\* str.isalpha()
Letters == UpperSet \cup {LowerOf[c] : c \in UpperSet} \cup OtherLetters

\* The digits of str(n).
DigitChars == <<"0", "1", "2", "3", "4", "5", "6", "7", "8", "9">>

\* The regex class \d: the decimal digits (category Nd).
Digits ==
    {DigitChars[i] : i \in 1..Len(DigitChars)}
        \cup {"U+0660", "U+0661", "U+0662", "U+0663", "U+0664", "U+0665", "U+0666",
         "U+0667", "U+0668", "U+0669"}

\* What str.strip() removes and the regex class \s matches: U+0009..U+000D,
\* U+001C..U+001F, space, U+0085, U+00A0, and the Unicode spaces beyond.
Whitespace ==
    {"\t", "\n", "", "\f", "\r", "", "", "", "", " ", "", " ", "U+1680",
     "U+2000", "U+2001", "U+2002", "U+2003", "U+2004", "U+2005", "U+2006",
     "U+2007", "U+2008", "U+2009", "U+200A", "U+2028", "U+2029", "U+202F",
     "U+205F", "U+3000"}

\* The regex class \w: alphanumerics (str.isalnum()) and the underscore.
WordChars ==
    Letters \cup Digits \cup {"_", "²", "³", "¹", "¼", "½", "¾"}

MinOf(S) == CHOOSE x \in S : \A y \in S : x <= y

MaxOf(S) == CHOOSE x \in S : \A y \in S : x >= y

\* s.strip()
Strip(s) ==
    LET keep == {i \in 1..Len(s) : s[i] \notin Whitespace}
    IN  IF keep = {} THEN <<>> ELSE SubSeq(s, MinOf(keep), MaxOf(keep))

\* The Python test "w in s" on strings: w occurs as a substring of s.
Contains(s, w) ==
    \E i \in 0..(Len(s) - Len(w)) : SubSeq(s, i + 1, i + Len(w)) = w

\* The Python slice xs[:n], for any integer n.
SlicePrefix(xs, n) ==
    IF n >= 0
    THEN SubSeq(xs, 1, IF n < Len(xs) THEN n ELSE Len(xs))
    ELSE SubSeq(xs, 1, IF Len(xs) + n > 0 THEN Len(xs) + n ELSE 0)

\* sep.join(parts)
RECURSIVE Join(_, _)
Join(sep, parts) ==
    IF parts = <<>> THEN <<>>
    ELSE IF Len(parts) = 1 THEN parts[1]
    ELSE parts[1] \o sep \o Join(sep, Tail(parts))

\* ''.join(parts)
RECURSIVE Concat(_)
Concat(parts) ==
    IF parts = <<>> THEN <<>> ELSE parts[1] \o Concat(Tail(parts))

\* str.lower() of a one-character string: a string, U+0130 lowering to two
\* characters.
LowerChar(c) ==
    IF c = "U+0130" THEN <<"i", "U+0307">>
    ELSE IF c \in UpperSet
         THEN <<LowerOf[c]>>
         ELSE <<c>>

\* text.lower(): character by character (the alphabet has no capital sigma,
\* the one character whose lower() depends on its neighbours).
RECURSIVE Lower(_)
Lower(s) ==
    LET long == {i \in 1..Len(s) : s[i] = "U+0130"}
    IN  IF long = {} THEN [i \in 1..Len(s) |-> LowerChar(s[i])[1]]
        ELSE LET k == MinOf(long)
             IN  [i \in 1..(k - 1) |-> LowerChar(s[i])[1]]
                     \o LowerChar(s[k]) \o Lower(SubSeq(s, k + 1, Len(s)))

\* The elements of a list, and the list without its repeated elements (in
\* order of first occurrence).
Elems(xs) == {xs[i] : i \in 1..Len(xs)}

Dedupe(xs) ==
    LET IsFirst(i) == \A j \in 1..(i - 1) : xs[j] # xs[i]
        firsts     == SelectSeq([i \in 1..Len(xs) |-> i], IsFirst)
    IN  [k \in 1..Len(firsts) |-> xs[firsts[k]]]

(***************************************************************************)
(* list(set(xs)).  A Python set of strings iterates in hash order, which   *)
(* changes with the process's string-hash seed: any order of the distinct  *)
(* elements can come out.  The order is an input of the conversion: a      *)
(* permutation of 1..n, order[i] being the position, among the distinct    *)
(* elements in order of first occurrence, of the i-th element listed.      *)
(***************************************************************************)
ListOfSet(xs, order) ==
    LET d == Dedupe(xs)
    IN  [i \in 1..Len(d) |-> d[order[i]]]

\* Every permutation of the positions in S.
RECURSIVE AllOrders(_)
AllOrders(S) ==
    IF S = {} THEN {<<>>}
    ELSE UNION {{<<x>> \o p : p \in AllOrders(S \ {x})} : x \in S}

(***************************************************************************)
(* re.split(r'[.!?]+', text): the pieces between maximal runs of sentence  *)
(* terminators, the empty pieces at either end included.                   *)
(***************************************************************************)
IsTerminator(c) == c \in {".", "!", "?"}

RECURSIVE SplitFrom(_, _)
SplitFrom(t, from) ==
    LET terms == {i \in from..Len(t) : IsTerminator(t[i])}
    IN  IF terms = {} THEN <<SubSeq(t, from, Len(t))>>
        ELSE LET first == MinOf(terms)
                 rest  == {i \in first..Len(t) : ~IsTerminator(t[i])}
                 next  == IF rest = {} THEN Len(t) + 1 ELSE MinOf(rest)
             IN  <<SubSeq(t, from, first - 1)>> \o SplitFrom(t, next)

re_split_sentences(text) == SplitFrom(text, 1)

(***************************************************************************)
(* The two patterns of the fallback entity extraction, matched as the re   *)
(* module matches them: leftmost, alternatives in order, quantifiers       *)
(* greedy.  A match "end" is the index after the match; 0 is no match.     *)
(***************************************************************************)
IsDigitAt(t, i) == i \in 1..Len(t) /\ t[i] \in Digits

IsWordAt(t, i) == i \in 1..Len(t) /\ t[i] \in WordChars

\* \b between t[p-1] and t[p].
WordBoundary(t, p) == IsWordAt(t, p - 1) # IsWordAt(t, p)

AllDigits(t, from, n) == \A k \in 0..(n - 1) : IsDigitAt(t, from + k)

IsDateSep(t, i) == i \in 1..Len(t) /\ t[i] \in {"/", "-"}

\* \b\d{1,2}[/-]\d{1,2}[/-]\d{2,4}\b at i
NumericDateEnd(t, i) ==
    LET fits == {abc \in {1, 2} \X {1, 2} \X {2, 3, 4} :
                    /\ AllDigits(t, i, abc[1])
                    /\ IsDateSep(t, i + abc[1])
                    /\ AllDigits(t, i + abc[1] + 1, abc[2])
                    /\ IsDateSep(t, i + abc[1] + 1 + abc[2])
                    /\ AllDigits(t, i + abc[1] + abc[2] + 2, abc[3])
                    /\ WordBoundary(t, i + abc[1] + abc[2] + 2 + abc[3])}
        \* greedy: the longest day, then the longest month, then the longest year
        best == CHOOSE x \in fits : \A y \in fits :
                    \/ x[1] > y[1]
                    \/ x[1] = y[1] /\ x[2] > y[2]
                    \/ x[1] = y[1] /\ x[2] = y[2] /\ x[3] >= y[3]
    IN  IF ~IsDigitAt(t, i) \/ ~WordBoundary(t, i) \/ fits = {} THEN 0
        ELSE i + best[1] + best[2] + 2 + best[3]

\* \b\d{4}\b at i
YearEnd(t, i) ==
    IF WordBoundary(t, i) /\ AllDigits(t, i, 4) /\ WordBoundary(t, i + 4)
    THEN i + 4 ELSE 0

\* date_pattern at i: both alternatives are a \b and then a digit.
DateMatchEnd(t, i) ==
    IF ~IsDigitAt(t, i) THEN 0
    ELSE LET numeric == NumericDateEnd(t, i)
         IN  IF numeric > 0 THEN numeric ELSE YearEnd(t, i)

\* \d+ from p (p itself a digit): the index after the run.
RECURSIVE DigitsEnd(_, _)
DigitsEnd(t, p) == IF IsDigitAt(t, p) THEN DigitsEnd(t, p + 1) ELSE p

\* (?:,\d{3})* from p
RECURSIVE GroupsEnd(_, _)
GroupsEnd(t, p) ==
    IF p <= Len(t) /\ t[p] = "," /\ AllDigits(t, p + 1, 3)
    THEN GroupsEnd(t, p + 4) ELSE p

\* (?:\.\d{2})? from p
CentsEnd(t, p) ==
    IF p <= Len(t) /\ t[p] = "." /\ AllDigits(t, p + 1, 2) THEN p + 3 ELSE p

\* \d+(?:,\d{3})*(?:\.\d{2})? from p (p itself a digit)
AmountEnd(t, p) == CentsEnd(t, GroupsEnd(t, DigitsEnd(t, p)))

\* \s* from p
RECURSIVE SpacesEnd(_, _)
SpacesEnd(t, p) ==
    IF p <= Len(t) /\ t[p] \in Whitespace THEN SpacesEnd(t, p + 1) ELSE p

\* Character c matches the pattern letter l under re.IGNORECASE: their
\* lower() agree, and "s" also matches U+017F, "i" U+0130 and U+0131.
MatchesIgnoringCase(c, l) ==
    \/ LowerChar(c) = <<l>>
    \/ l = "s" /\ c = "U+017F"
    \/ l = "i" /\ c \in {"U+0130", "U+0131"}

StartsWithAt(t, p, w) ==
    /\ p + Len(w) - 1 <= Len(t)
    /\ \A k \in 1..Len(w) : MatchesIgnoringCase(t[p + k - 1], w[k])

\* (?:USD|dollars?|cents?) from p, ignoring case
CurrencyEnd(t, p) ==
    IF StartsWithAt(t, p, <<"u", "s", "d">>) THEN p + 3
    ELSE IF StartsWithAt(t, p, <<"d", "o", "l", "l", "a", "r", "s">>) THEN p + 7
    ELSE IF StartsWithAt(t, p, <<"d", "o", "l", "l", "a", "r">>) THEN p + 6
    ELSE IF StartsWithAt(t, p, <<"c", "e", "n", "t", "s">>) THEN p + 5
    ELSE IF StartsWithAt(t, p, <<"c", "e", "n", "t">>) THEN p + 4
    ELSE 0

\* money_pattern at i.  After the leading digits every later item of either
\* alternative is optional or is followed by a character it cannot match, so
\* the greedy attempt is the only one that can succeed.
MoneyMatchEnd(t, i) ==
    IF t[i] = "$" /\ IsDigitAt(t, i + 1) THEN AmountEnd(t, i + 1)
    ELSE IF IsDigitAt(t, i) THEN CurrencyEnd(t, SpacesEnd(t, AmountEnd(t, i)))
    ELSE 0

\* re.findall(date_pattern, text): the leftmost match, then the scan goes on
\* from its end.
RECURSIVE FindAllDatesFrom(_, _)
FindAllDatesFrom(t, from) ==
    LET starts == {j \in from..Len(t) : DateMatchEnd(t, j) > 0}
    IN  IF starts = {} THEN <<>>
        ELSE LET s   == MinOf(starts)
                 end == DateMatchEnd(t, s)
             IN  <<SubSeq(t, s, end - 1)>> \o FindAllDatesFrom(t, end)

findall_dates(text) == FindAllDatesFrom(text, 1)

\* re.findall(money_pattern, text, re.IGNORECASE)
RECURSIVE FindAllMoneyFrom(_, _)
FindAllMoneyFrom(t, from) ==
    LET starts == {j \in from..Len(t) : MoneyMatchEnd(t, j) > 0}
    IN  IF starts = {} THEN <<>>
        ELSE LET s   == MinOf(starts)
                 end == MoneyMatchEnd(t, s)
             IN  <<SubSeq(t, s, end - 1)>> \o FindAllMoneyFrom(t, end)

findall_money(text) == FindAllMoneyFrom(text, 1)

(***************************************************************************)
(* The fixed vocabularies.                                                 *)
(***************************************************************************)
\* RISK_WORDS
RISK_WORDS ==
    <<<<"f", "r", "a", "u", "d">>,
      <<"p", "e", "n", "a", "l", "t", "y">>,
      <<"v", "i", "o", "l", "a", "t", "i", "o", "n">>,
      <<"r", "i", "s", "k">>,
      <<"l", "a", "w", "s", "u", "i", "t">>,
      <<"b", "r", "e", "a", "c", "h">>,
      <<"n", "o", "n", "c", "o", "m", "p", "l", "i", "a", "n", "c", "e">>,
      <<"l", "i", "t", "i", "g", "a", "t", "i", "o", "n">>,
      <<"r", "e", "g", "u", "l", "a", "t", "o", "r", "y">>,
      <<"f", "i", "n", "e">>>>

\* legal_terms, the list of the fallback entity extraction
legal_terms ==
    <<<<"c", "o", "n", "t", "r", "a", "c", "t">>,
      <<"a", "g", "r", "e", "e", "m", "e", "n", "t">>,
      <<"l", "i", "a", "b", "i", "l", "i", "t", "y">>,
      <<"i", "n", "d", "e", "m", "n", "i", "t", "y">>,
      <<"w", "a", "r", "r", "a", "n", "t", "y">>,
      <<"t", "e", "r", "m", "i", "n", "a", "t", "i", "o", "n">>,
      <<"j", "u", "r", "i", "s", "d", "i", "c", "t", "i", "o", "n">>,
      <<"g", "o", "v", "e", "r", "n", "i", "n", "g", " ", "l", "a", "w">>>>

GoverningLaw == <<"g", "o", "v", "e", "r", "n", "i", "n", "g", " ", "l", "a", "w">>

Jurisdiction == <<"j", "u", "r", "i", "s", "d", "i", "c", "t", "i", "o", "n">>

Termination == <<"t", "e", "r", "m", "i", "n", "a", "t", "i", "o", "n">>

Confidential == <<"c", "o", "n", "f", "i", "d", "e", "n", "t", "i", "a", "l">>

Proprietary == <<"p", "r", "o", "p", "r", "i", "e", "t", "a", "r", "y">>

Liability == <<"l", "i", "a", "b", "i", "l", "i", "t", "y">>

Signature == <<"s", "i", "g", "n", "a", "t", "u", "r", "e">>

Signed == <<"s", "i", "g", "n", "e", "d">>

\* The words of spaCy's English stop list that occur in the documents below.
StopWords ==
    {<<"a">>,
     <<"a", "l", "l">>,
     <<"a", "n", "d">>,
     <<"a", "s">>,
     <<"b", "y">>,
     <<"d", "u", "e">>,
     <<"e", "a", "c", "h">>,
     <<"f", "o", "r">>,
     <<"h", "a", "s">>,
     <<"h", "e", "r", "e">>,
     <<"i", "n">>,
     <<"i", "s">>,
     <<"i", "t">>,
     <<"o", "f">>,
     <<"o", "n">>,
     <<"o", "r">>,
     <<"t", "h", "e">>,
     <<"t", "h", "e", "r", "e">>,
     <<"t", "h", "i", "s">>,
     <<"t", "o">>,
     <<"t", "w", "o">>,
     <<"u", "n", "d", "e", "r">>,
     <<"w", "a", "s">>}

(***************************************************************************)
(* The spaCy Doc.  A token is its text and the whitespace that follows it  *)
(* (token.text, token.whitespace_); a sentence (a Span of doc.sents) is a  *)
(* sequence of tokens; an entity span is its text and its label.           *)
(***************************************************************************)
\* A token followed by one space, and one followed by nothing.
W(chars) == [text |-> chars, ws |-> <<" ">>]

T(chars) == [text |-> chars, ws |-> <<>>]

\* token.text_with_ws
TextWithWs(tok) == tok.text \o tok.ws

\* str(span): the tokens' text with the whitespace between them, the last
\* token's trailing whitespace left out.
SpanText(toks) ==
    IF toks = <<>> THEN <<>>
    ELSE Concat([i \in 1..(Len(toks) - 1) |-> TextWithWs(toks[i])])
             \o toks[Len(toks)].text

\* doc.text
DocText(doc) ==
    Concat([i \in 1..Len(doc.sents) |->
               Concat([j \in 1..Len(doc.sents[i]) |-> TextWithWs(doc.sents[i][j])])])

\* The tokens of the document ("for token in doc").
DocTokens(doc) == Concat(doc.sents)

\* token.is_alpha: token.text.isalpha()
is_alpha(tok) == tok.text # <<>> /\ \A i \in 1..Len(tok.text) : tok.text[i] \in Letters

\* token.is_stop
is_stop(tok) == Lower(tok.text) \in StopWords

\* nlp(text.lower()): the tokeniser's rules split on whitespace and
\* punctuation, which lower() leaves in place.
LowerDoc(doc) ==
    [sents |-> [i \in 1..Len(doc.sents) |->
                   [j \in 1..Len(doc.sents[i]) |->
                       [text |-> Lower(doc.sents[i][j].text), ws |-> doc.sents[i][j].ws]]],
     ents  |-> doc.ents]

\* The shape of a document made of sentence fragments.
DocOf(frags) ==
    [sents |-> [i \in 1..Len(frags) |-> frags[i].toks],
     ents  |-> Concat([i \in 1..Len(frags) |-> frags[i].ents])]

(***************************************************************************)
(* The analysis functions.  nlp is "Model" or "None"; doc is what          *)
(* process_text(text) returns when nlp is the model.                       *)
(***************************************************************************)
ClauseMinLen == 10

MaxClausesReturned == 10

MaxEntitiesPerBucket == 10

DefaultNumSentences == 5

\* Mutant of FallbackSentences: the length filter only drops empty pieces.
FallbackSentences_NoMinLen(text) ==
    LET sentences   == re_split_sentences(text)
        stripped    == [i \in 1..Len(sentences) |-> Strip(sentences[i])]
        NonEmpty(s) == Len(s) > 0
    IN  SelectSeq(stripped, NonEmpty)

\* [s.strip() for s in sentences if len(s.strip()) > 10]
FallbackSentences(text) ==
    LET sentences == re_split_sentences(text)
        stripped  == [i \in 1..Len(sentences) |-> Strip(sentences[i])]
        Long(s)   == Len(s) > ClauseMinLen
    IN  SelectSeq(stripped, Long)

\* [str(sentence).strip() for sentence in sentences if len(sentence) > 10]:
\* len of a Span is its number of tokens.
ModelClauses(doc) ==
    LET Long(sent) == Len(sent) > ClauseMinLen
        kept       == SelectSeq(doc.sents, Long)
    IN  [i \in 1..Len(kept) |-> Strip(SpanText(kept[i]))]

extract_key_clauses(text, nlp, doc) ==
    IF nlp = "None"
    THEN SlicePrefix(FallbackSentences(text), MaxClausesReturned)
    ELSE SlicePrefix(ModelClauses(doc), MaxClausesReturned)

\* word_frequencies: Counter over the lowercased text of the alphabetic
\* non-stop tokens of the whole document
word_frequencies(doc) ==
    LET Counted(tok) == is_alpha(tok) /\ ~is_stop(tok)
        kept  == SelectSeq(DocTokens(doc), Counted)
        words == [k \in 1..Len(kept) |-> Lower(kept[k].text)]
    IN  [w \in Elems(words) |-> Cardinality({k \in 1..Len(words) : words[k] = w})]

\* sum(word_frequencies.get(word.text.lower(), 0) for word in sent)
RECURSIVE SumFreq(_, _, _)
SumFreq(freq, sent, k) ==
    IF k > Len(sent) THEN 0
    ELSE LET w == Lower(sent[k].text)
         IN  (IF w \in DOMAIN freq THEN freq[w] ELSE 0) + SumFreq(freq, sent, k + 1)

sentence_score(freq, sent) == SumFreq(freq, sent, 1)

\* heapq.nlargest(n, keys, key=score) over the sentence indices: highest
\* score first, the earlier sentence first among equal scores.
RECURSIVE nlargest(_, _, _)
nlargest(n, cands, score) ==
    IF n <= 0 \/ cands = {} THEN <<>>
    ELSE LET best == CHOOSE i \in cands : \A j \in cands :
                         score[i] > score[j] \/ (score[i] = score[j] /\ i <= j)
         IN  <<best>> \o nlargest(n - 1, cands \ {best}, score)

\* The sentences the summary is made of: sentences[:num_sentences] in the
\* fallback, summarized_sentences with the model.
summarized_sentences(text, num_sentences, nlp, doc) ==
    IF nlp = "None"
    THEN SlicePrefix(FallbackSentences(text), num_sentences)
    ELSE LET freq   == word_frequencies(doc)
             score  == [i \in 1..Len(doc.sents) |-> sentence_score(freq, doc.sents[i])]
             chosen == nlargest(num_sentences, 1..Len(doc.sents), score)
         IN  [k \in 1..Len(chosen) |-> SpanText(doc.sents[chosen[k]])]

summarize_text(text, num_sentences, nlp, doc) ==
    IF nlp = "None"
    THEN Join(<<".", " ">>, summarized_sentences(text, num_sentences, nlp, doc))
    ELSE Join(<<" ">>, summarized_sentences(text, num_sentences, nlp, doc))

\* [word for word in RISK_WORDS if word in text_lower]
RiskWordsIn(text_lower) ==
    LET Found(word) == Contains(text_lower, word)
    IN  SelectSeq(RISK_WORDS, Found)

\* [token.text for token in doc if token.text in RISK_WORDS]
RiskTokens(doc) ==
    LET toks == DocTokens(doc)
        texts == [k \in 1..Len(toks) |-> toks[k].text]
        IsRisk(w) == w \in Elems(RISK_WORDS)
    IN  SelectSeq(texts, IsRisk)

\* Mutant of RisksFound: the fallback searches the text as written, not
\* lowercased.
RisksFound_CaseSensitive(text, nlp, doc) ==
    IF nlp = "None"
    THEN RiskWordsIn(text)
    ELSE RiskTokens(LowerDoc(doc))

\* What the set is made of: the words found in text.lower(), or the tokens
\* of process_text(text.lower()) that are risk words.
RisksFound(text, nlp, doc) ==
    IF nlp = "None"
    THEN RiskWordsIn(Lower(text))
    ELSE RiskTokens(LowerDoc(doc))

detect_risks(text, nlp, doc, order) == ListOfSet(RisksFound(text, nlp, doc), order)

\* [ent.text for ent in doc.ents if ent.label_ == label]
EntsLabelled(doc, label) ==
    LET Is(e) == e.label_ = label
        kept  == SelectSeq(doc.ents, Is)
    IN  [k \in 1..Len(kept) |-> kept[k].text]

\* Mutant of LegalTermsIn: the last term of the list is never tried.
LegalTermsIn_SkipLast(text_lower) ==
    LET Found(term) == Contains(text_lower, term)
    IN  SelectSeq(SubSeq(legal_terms, 1, Len(legal_terms) - 1), Found)

\* [term for term in legal_terms if term in text_lower]
LegalTermsIn(text_lower) ==
    LET Found(term) == Contains(text_lower, term)
    IN  SelectSeq(legal_terms, Found)

\* What each bucket is made of: the regex matches and the terms found in the
\* fallback, the entity spans of each label with the model.
FoundEntities(text, nlp, doc) ==
    IF nlp = "None"
    THEN [PERSONS       |-> <<>>,
          ORGANIZATIONS |-> <<>>,
          DATES         |-> findall_dates(text),
          MONETARY      |-> findall_money(text),
          LEGAL_TERMS   |-> LegalTermsIn(Lower(text))]
    ELSE [PERSONS       |-> EntsLabelled(doc, "PERSON"),
          ORGANIZATIONS |-> EntsLabelled(doc, "ORG"),
          DATES         |-> EntsLabelled(doc, "DATE"),
          MONETARY      |-> EntsLabelled(doc, "MONEY"),
          LEGAL_TERMS   |-> <<>>]

\* The buckets before the final loop: in the fallback the dates and the
\* amounts have been through list(set(...)) once already, each in the order
\* that conversion met.
RawEntities(found, nlp, orders) ==
    IF nlp = "None"
    THEN [found EXCEPT !.DATES    = ListOfSet(@, orders.found_dates),
                       !.MONETARY = ListOfSet(@, orders.found_money)]
    ELSE found

\* entities[key] = list(set(entities[key]))[:10]
LimitBucket(bucket, order) == SlicePrefix(ListOfSet(bucket, order), MaxEntitiesPerBucket)

\* The final loop over the buckets.
LimitedEntities(raw, orders) == [key \in DOMAIN raw |-> LimitBucket(raw[key], orders[key])]

\* The entities returned when what is found is known; orders is the order
\* each of the set conversions met.
EntitiesOf(found, nlp, orders) == LimitedEntities(RawEntities(found, nlp, orders), orders)

extract_legal_entities(text, nlp, doc, orders) ==
    EntitiesOf(FoundEntities(text, nlp, doc), nlp, orders)

\* The five rules, in the order the function evaluates them.
ComplianceRules(text_lower) ==
    << [holds |-> ~Contains(text_lower, GoverningLaw) /\ ~Contains(text_lower, Jurisdiction),
        issue |-> "Missing governing law or jurisdiction clause"],
       [holds |-> ~Contains(text_lower, Termination),
        issue |-> "No termination clause found"],
       [holds |-> ~Contains(text_lower, Confidential) /\ ~Contains(text_lower, Proprietary),
        issue |-> "No confidentiality or proprietary information clause"],
       [holds |-> ~Contains(text_lower, Liability),
        issue |-> "Liability terms not clearly defined"],
       [holds |-> ~Contains(text_lower, Signature) /\ ~Contains(text_lower, Signed),
        issue |-> "Document may lack proper signature requirements"] >>

\* Mutant of check_compliance: the rules read the text as written, not
\* lowercased.
check_compliance_CaseSensitive(text) ==
    LET rules == ComplianceRules(text)
    IN  Concat([i \in 1..Len(rules) |->
                   IF rules[i].holds THEN <<rules[i].issue>> ELSE <<>>])

check_compliance(text) ==
    LET rules == ComplianceRules(Lower(text))
    IN  Concat([i \in 1..Len(rules) |->
                   IF rules[i].holds THEN <<rules[i].issue>> ELSE <<>>])

(***************************************************************************)
(* The documents the analysis is run on.  Each fragment is one sentence as *)
(* the pipeline segments and tokenises it, with the entity spans it        *)
(* reports there.                                                          *)
(***************************************************************************)
\* FragContract: 'This contract has a termination clause. '  (7 tokens)
FragContract ==
  [toks |-> <<
      W(<<"T", "h", "i", "s">>),
      W(<<"c", "o", "n", "t", "r", "a", "c", "t">>),
      W(<<"h", "a", "s">>),
      W(<<"a">>),
      W(<<"t", "e", "r", "m", "i", "n", "a", "t", "i", "o", "n">>),
      T(<<"c", "l", "a", "u", "s", "e">>),
      W(<<".">>) >>,
   ents |-> <<>>]

\* FragShort: 'Hi John. '  (3 tokens)
FragShort ==
  [toks |-> <<
      W(<<"H", "i">>),
      T(<<"J", "o", "h", "n">>),
      W(<<".">>) >>,
   ents |-> <<[text |-> <<"J", "o", "h", "n">>, label_ |-> "PERSON"]>>]

\* FragList: 'a,b,c,d,e,\n'  (11 tokens): a comma between two letters is an
\* infix of the tokeniser, the last comma a suffix, the line break a token of
\* its own that str(sentence).strip() removes.
FragList ==
  [toks |-> <<
      T(<<"a">>),
      T(<<",">>),
      T(<<"b">>),
      T(<<",">>),
      T(<<"c">>),
      T(<<",">>),
      T(<<"d">>),
      T(<<",">>),
      T(<<"e">>),
      T(<<",">>),
      T(<<"\n">>) >>,
   ents |-> <<>>]

\* FragPayment: 'Acme Corp pays John Smith $500.00 on 01/02/2020 as a fine for breach! '  (15 tokens)
FragPayment ==
  [toks |-> <<
      W(<<"A", "c", "m", "e">>),
      W(<<"C", "o", "r", "p">>),
      W(<<"p", "a", "y", "s">>),
      W(<<"J", "o", "h", "n">>),
      W(<<"S", "m", "i", "t", "h">>),
      T(<<"$">>),
      W(<<"5", "0", "0", ".", "0", "0">>),
      W(<<"o", "n">>),
      W(<<"0", "1", "/", "0", "2", "/", "2", "0", "2", "0">>),
      W(<<"a", "s">>),
      W(<<"a">>),
      W(<<"f", "i", "n", "e">>),
      W(<<"f", "o", "r">>),
      T(<<"b", "r", "e", "a", "c", "h">>),
      W(<<"!">>) >>,
   ents |-> <<[text |-> <<"A", "c", "m", "e", " ", "C", "o", "r", "p">>, label_ |-> "ORG"], [text |-> <<"J", "o", "h", "n", " ", "S", "m", "i", "t", "h">>, label_ |-> "PERSON"], [text |-> <<"5", "0", "0", ".", "0", "0">>, label_ |-> "MONEY"], [text |-> <<"0", "1", "/", "0", "2", "/", "2", "0", "2", "0">>, label_ |-> "DATE"]>>]

\* FragRefined: 'Refined terms apply in California. '  (6 tokens)
FragRefined ==
  [toks |-> <<
      W(<<"R", "e", "f", "i", "n", "e", "d">>),
      W(<<"t", "e", "r", "m", "s">>),
      W(<<"a", "p", "p", "l", "y">>),
      W(<<"i", "n">>),
      T(<<"C", "a", "l", "i", "f", "o", "r", "n", "i", "a">>),
      W(<<".">>) >>,
   ents |-> <<[text |-> <<"C", "a", "l", "i", "f", "o", "r", "n", "i", "a">>, label_ |-> "GPE"]>>]

\* FragCompliant: 'Governing Law, Termination, Confidential, Liability, Signature? '  (11 tokens)
FragCompliant ==
  [toks |-> <<
      W(<<"G", "o", "v", "e", "r", "n", "i", "n", "g">>),
      T(<<"L", "a", "w">>),
      W(<<",">>),
      T(<<"T", "e", "r", "m", "i", "n", "a", "t", "i", "o", "n">>),
      W(<<",">>),
      T(<<"C", "o", "n", "f", "i", "d", "e", "n", "t", "i", "a", "l">>),
      W(<<",">>),
      T(<<"L", "i", "a", "b", "i", "l", "i", "t", "y">>),
      W(<<",">>),
      T(<<"S", "i", "g", "n", "a", "t", "u", "r", "e">>),
      W(<<"?">>) >>,
   ents |-> <<>>]

\* FragSigned: 'Signed under jurisdiction of proprietary RISK. '  (7 tokens)
FragSigned ==
  [toks |-> <<
      W(<<"S", "i", "g", "n", "e", "d">>),
      W(<<"u", "n", "d", "e", "r">>),
      W(<<"j", "u", "r", "i", "s", "d", "i", "c", "t", "i", "o", "n">>),
      W(<<"o", "f">>),
      W(<<"p", "r", "o", "p", "r", "i", "e", "t", "a", "r", "y">>),
      T(<<"R", "I", "S", "K">>),
      W(<<".">>) >>,
   ents |-> <<>>]

\* FragCosts: 'It costs 1,000 dollars or 5 cents. '  (8 tokens)
FragCosts ==
  [toks |-> <<
      W(<<"I", "t">>),
      W(<<"c", "o", "s", "t", "s">>),
      W(<<"1", ",", "0", "0", "0">>),
      W(<<"d", "o", "l", "l", "a", "r", "s">>),
      W(<<"o", "r">>),
      W(<<"5">>),
      T(<<"c", "e", "n", "t", "s">>),
      W(<<".">>) >>,
   ents |-> <<[text |-> <<"1", ",", "0", "0", "0", " ", "d", "o", "l", "l", "a", "r", "s">>, label_ |-> "MONEY"], [text |-> <<"5", " ", "c", "e", "n", "t", "s">>, label_ |-> "MONEY"]>>]

\* FragUnicode: '\xa0CAF\xc9 ris\u212a: 5\xa0dollars, 7 u\u017fd by \xe92020 or \u0662\u0660\u0662\u0660 \u0130!\x0b'  (17 tokens)
FragUnicode ==
  [toks |-> <<
      T(<<" ">>),
      W(<<"C", "A", "F", "É">>),
      T(<<"r", "i", "s", "U+212A">>),
      W(<<":">>),
      T(<<"5">>),
      T(<<" ">>),
      T(<<"d", "o", "l", "l", "a", "r", "s">>),
      W(<<",">>),
      W(<<"7">>),
      W(<<"u", "U+017F", "d">>),
      W(<<"b", "y">>),
      W(<<"é", "2", "0", "2", "0">>),
      W(<<"o", "r">>),
      W(<<"U+0662", "U+0660", "U+0662", "U+0660">>),
      T(<<"U+0130">>),
      T(<<"!">>),
      T(<<"">>) >>,
   ents |-> <<[text |-> <<"5", " ", "d", "o", "l", "l", "a", "r", "s">>, label_ |-> "MONEY"], [text |-> <<"7", " ", "u", "U+017F", "d">>, label_ |-> "MONEY"], [text |-> <<"U+0662", "U+0660", "U+0662", "U+0660">>, label_ |-> "DATE"]>>]

\* ExampleSent1: 'This is a test contract. '  (6 tokens)
ExampleSent1 ==
  [toks |-> <<
      W(<<"T", "h", "i", "s">>),
      W(<<"i", "s">>),
      W(<<"a">>),
      W(<<"t", "e", "s", "t">>),
      T(<<"c", "o", "n", "t", "r", "a", "c", "t">>),
      W(<<".">>) >>,
   ents |-> <<>>]

\* ExampleSent2: 'It was signed on 01/02/2020 for $500.00. '  (9 tokens)
ExampleSent2 ==
  [toks |-> <<
      W(<<"I", "t">>),
      W(<<"w", "a", "s">>),
      W(<<"s", "i", "g", "n", "e", "d">>),
      W(<<"o", "n">>),
      W(<<"0", "1", "/", "0", "2", "/", "2", "0", "2", "0">>),
      W(<<"f", "o", "r">>),
      T(<<"$">>),
      T(<<"5", "0", "0", ".", "0", "0">>),
      W(<<".">>) >>,
   ents |-> <<[text |-> <<"0", "1", "/", "0", "2", "/", "2", "0", "2", "0">>, label_ |-> "DATE"], [text |-> <<"5", "0", "0", ".", "0", "0">>, label_ |-> "MONEY"]>>]

\* ExampleSent3: 'Governing law is California. '  (5 tokens)
ExampleSent3 ==
  [toks |-> <<
      W(<<"G", "o", "v", "e", "r", "n", "i", "n", "g">>),
      W(<<"l", "a", "w">>),
      W(<<"i", "s">>),
      T(<<"C", "a", "l", "i", "f", "o", "r", "n", "i", "a">>),
      W(<<".">>) >>,
   ents |-> <<[text |-> <<"C", "a", "l", "i", "f", "o", "r", "n", "i", "a">>, label_ |-> "GPE"]>>]

\* ExampleSent4: 'Termination occurs in jurisdiction X. '  (6 tokens)
ExampleSent4 ==
  [toks |-> <<
      W(<<"T", "e", "r", "m", "i", "n", "a", "t", "i", "o", "n">>),
      W(<<"o", "c", "c", "u", "r", "s">>),
      W(<<"i", "n">>),
      W(<<"j", "u", "r", "i", "s", "d", "i", "c", "t", "i", "o", "n">>),
      T(<<"X">>),
      W(<<".">>) >>,
   ents |-> <<>>]

\* ExampleSent5: 'Liability is limited. '  (4 tokens)
ExampleSent5 ==
  [toks |-> <<
      W(<<"L", "i", "a", "b", "i", "l", "i", "t", "y">>),
      W(<<"i", "s">>),
      T(<<"l", "i", "m", "i", "t", "e", "d">>),
      W(<<".">>) >>,
   ents |-> <<>>]

\* ExampleSent6: 'Confidential information is protected.'  (5 tokens)
ExampleSent6 ==
  [toks |-> <<
      W(<<"C", "o", "n", "f", "i", "d", "e", "n", "t", "i", "a", "l">>),
      W(<<"i", "n", "f", "o", "r", "m", "a", "t", "i", "o", "n">>),
      W(<<"i", "s">>),
      T(<<"p", "r", "o", "t", "e", "c", "t", "e", "d">>),
      T(<<".">>) >>,
   ents |-> <<>>]

\* The example document of the test-suite property on entity extraction.
ExampleDoc ==
    DocOf(<<ExampleSent1, ExampleSent2, ExampleSent3, ExampleSent4, ExampleSent5,
            ExampleSent6>>)

SpecExampleText ==
    <<"T", "h", "i", "s", " ", "i", "s", " ", "a", " ", "t", "e", "s", "t", " ", "c", "o", "n",
      "t", "r", "a", "c", "t", ".", " ", "I", "t", " ", "w", "a", "s", " ", "s", "i", "g", "n",
      "e", "d", " ", "o", "n", " ", "0", "1", "/", "0", "2", "/", "2", "0", "2", "0", " ", "f",
      "o", "r", " ", "$", "5", "0", "0", ".", "0", "0", ".", " ", "G", "o", "v", "e", "r", "n",
      "i", "n", "g", " ", "l", "a", "w", " ", "i", "s", " ", "C", "a", "l", "i", "f", "o", "r",
      "n", "i", "a", ".", " ", "T", "e", "r", "m", "i", "n", "a", "t", "i", "o", "n", " ", "o",
      "c", "c", "u", "r", "s", " ", "i", "n", " ", "j", "u", "r", "i", "s", "d", "i", "c", "t",
      "i", "o", "n", " ", "X", ".", " ", "L", "i", "a", "b", "i", "l", "i", "t", "y", " ", "i",
      "s", " ", "l", "i", "m", "i", "t", "e", "d", ".", " ", "C", "o", "n", "f", "i", "d", "e",
      "n", "t", "i", "a", "l", " ", "i", "n", "f", "o", "r", "m", "a", "t", "i", "o", "n", " ",
      "i", "s", " ", "p", "r", "o", "t", "e", "c", "t", "e", "d", ".">>

\* str(n) for 0 <= n < 100
TwoDigits(n) == <<DigitChars[(n \div 10) + 1], DigitChars[(n % 10) + 1]>>

NumberText(n) == IF n < 10 THEN <<DigitChars[n + 1]>> ELSE TwoDigits(n)

\* 'Sec 7: a b c d e f g h. '  (12 tokens), one numbered sentence
NumberedSentence(n) ==
    [toks |-> << W(<<"S", "e", "c">>), T(NumberText(n)), W(<<":">>),
                 W(<<"a">>), W(<<"b">>), W(<<"c">>), W(<<"d">>), W(<<"e">>),
                 W(<<"f">>), W(<<"g">>), T(<<"h">>), W(<<".">>) >>,
     ents |-> <<>>]

\* '2007'
YearText(n) == <<"2", "0">> \o TwoDigits(n)

\* 'Due 2001 2001 2002 2003. ': the years 2001..2000+k, the first one twice,
\* each reported as a DATE.
YearsSentence(k) ==
    LET years == <<1>> \o [i \in 1..k |-> i]
    IN  [toks |-> <<W(<<"D", "u", "e">>)>>
                    \o [i \in 1..Len(years) |->
                           IF i < Len(years) THEN W(YearText(years[i]))
                                             ELSE T(YearText(years[i]))]
                    \o <<W(<<".">>)>>,
         ents |-> [i \in 1..Len(years) |->
                      [text |-> YearText(years[i]), label_ |-> "DATE"]]]

\* Bounds of the input space.
MaxFrags == 2

MaxClauses == 11

MaxYears == 3

MaxCount == 3

MaxLoads == 3

Fragments ==
    {FragContract, FragShort, FragList, FragPayment, FragRefined, FragCompliant,
     FragSigned, FragCosts, FragUnicode}

MixedDocs(len) == {DocOf(fs) : fs \in UNION {[1..n -> Fragments] : n \in 0..len}}

ClauseDocs == {DocOf([i \in 1..k |-> NumberedSentence(i)]) : k \in 1..MaxClauses}

YearDocs == {DocOf(<<YearsSentence(k)>>) : k \in 1..MaxYears}

Docs == MixedDocs(MaxFrags) \cup ClauseDocs \cup YearDocs \cup {ExampleDoc}

EmptyDoc == DocOf(<<>>)

\* The documents uploaded in the application runs.
FlowDocs == {EmptyDoc, DocOf(<<FragContract>>), DocOf(<<FragPayment>>)}

\* The iteration orders list(set(xs)) can meet: every order of the distinct
\* elements, the hash seed of the process deciding which.
OrdersOf(xs) == AllOrders(1..Cardinality(Elems(xs)))

\* The orders the set of detect_risks can have.
RiskOrders(text, nlp, doc) == OrdersOf(RisksFound(text, nlp, doc))

\* The orders the sets of extract_legal_entities can have, one for each
\* conversion: the two of the fallback's regex matches, then the five of
\* the final loop.
EntityOrders(found, nlp) ==
    [found_dates   : IF nlp = "None" THEN OrdersOf(found.DATES) ELSE {<<>>},
     found_money   : IF nlp = "None" THEN OrdersOf(found.MONETARY) ELSE {<<>>},
     PERSONS       : OrdersOf(found.PERSONS),
     ORGANIZATIONS : OrdersOf(found.ORGANIZATIONS),
     DATES         : OrdersOf(found.DATES),
     MONETARY      : OrdersOf(found.MONETARY),
     LEGAL_TERMS   : OrdersOf(found.LEGAL_TERMS)]

\* The values passed as num_sentences.
Counts == (0 - MaxCount)..MaxCount \cup {DefaultNumSentences}

(***************************************************************************)
(* The application.  Streamlit runs the script from the top on every       *)
(* interaction: "nlp = load_spacy()" first, then main().                   *)
(***************************************************************************)
\* The options the feature multiselect offers (main, the multiselect call).
OptSummary == "U+FFFD Document Summary"

OptClauses == "U+1F511 Key Legal Clauses"

OptRisk == "U+2696 U+FE0F Risk Assessment"

OptEntity == "U+1F4CA Entity Recognition"

OptCompliance == "U+1F3AF Compliance Check"

OptViz == "U+1F4C8 Data Visualization"

FeatureOptions == {OptSummary, OptClauses, OptRisk, OptEntity, OptCompliance, OptViz}

\* The strings main looks for in the selection (the "in features" tests).
KeySummary == "U+FFFD Document Summary"

KeyClauses == "U+1F511 Key Legal Clauses"

KeyViz == "U+FFFD Data Visualization"

KeyRisk == "U+2696 U+FE0F Risk Assessment"

KeyEntity == "U+1F3AF Entity Recognition"

KeyCompliance == "U+1F3AF Compliance Check"

\* What extract_text can raise on a file it cannot read.
ExtractionErrors == {"PDFSyntaxError", "PSEOF"}

NoFile == [kind |-> "none", doc |-> EmptyDoc, cause |-> ""]

Uploads ==
    {NoFile}
    \cup {[kind |-> "pdf", doc |-> d, cause |-> ""] : d \in FlowDocs}
    \cup {[kind |-> "corrupt", doc |-> EmptyDoc, cause |-> c] : c \in ExtractionErrors}

NoError == [shown |-> FALSE, cause |-> ""]

NoReport == [generated |-> FALSE, args |-> <<>>]

\* The branch "if nlp is None" selects in every analysis function.
Branch(n) == IF n = "None" THEN "fallback" ELSE "model"

VARIABLES
    cache,             \* st.cache_resource's entry for load_spacy: "empty", "Model", "None"
    loads,             \* how many times spacy.load has been called, counted
                       \* up to MaxLoads (MaxLoads: that many times or more)
    nlp,               \* the module global: "unset", "Model" or "None"
    pc,                \* where the script run is; "idle" between runs
    features,          \* the multiselect's selection
    uploaded,          \* the file uploader's file
    doc,               \* what the pipeline makes of the text
    text,              \* the document text
    summary, clauses, risks, entities, compliance_issues,    \* main's locals
    calls,             \* the functions main has called in this run
    branches,          \* the branches the analysis calls have taken so far
    error,             \* st.error of this run
    report,            \* generate_legal_report's arguments, once called
    called,            \* a direct call: the function called, "none" before
    num_sentences,     \* its num_sentences argument
    used,              \* what its result is made from: the sentences of a
                       \* summary
    ret                \* its return value

processVars == <<cache, loads>>

\* One more call of spacy.load.
OneMoreLoad == IF loads < MaxLoads THEN loads + 1 ELSE loads

inputVars == <<features, uploaded>>

docVars == <<doc, text>>

resultVars == <<summary, clauses, risks, entities, compliance_issues>>

callVars == <<called, num_sentences, used, ret>>

vars ==
    <<processVars, nlp, pc, inputVars, docVars, resultVars, calls, branches, error,
      report, callVars>>

(***************************************************************************)
(* Specification Spec: the application's runs.                             *)
(***************************************************************************)
Init ==
    /\ cache = "empty"
    /\ loads = 0
    /\ nlp = "unset"
    /\ pc = "idle"
    /\ features = {}
    /\ uploaded = NoFile
    /\ doc = EmptyDoc
    /\ text = <<>>
    /\ summary = <<>>
    /\ clauses = <<>>
    /\ risks = <<>>
    /\ entities = <<>>
    /\ compliance_issues = <<>>
    /\ calls = {}
    /\ branches = {}
    /\ error = NoError
    /\ report = NoReport
    /\ called = "none"
    /\ num_sentences = DefaultNumSentences
    /\ used = <<>>
    /\ ret = <<>>

\* An interaction: the script starts again from the top with the widgets'
\* new values, a run still under way being abandoned where it is.  The
\* module's globals are those of the new run: nlp has no value until
\* "nlp = load_spacy()" has been executed.
Rerun ==
    /\ \E f \in SUBSET FeatureOptions, u \in Uploads :
          /\ features' = f
          /\ uploaded' = u
    /\ pc' = "import"
    /\ doc' = EmptyDoc
    /\ text' = <<>>
    /\ summary' = <<>>
    /\ clauses' = <<>>
    /\ risks' = <<>>
    /\ entities' = <<>>
    /\ compliance_issues' = <<>>
    /\ calls' = {}
    /\ error' = NoError
    /\ report' = NoReport
    /\ nlp' = "unset"
    /\ UNCHANGED <<processVars, branches, callVars>>

\* load_spacy() with the resource cached: the cached value, no load.
LoadCached ==
    /\ pc = "import"
    /\ cache # "empty"
    /\ nlp' = cache
    /\ pc' = "main"
    /\ UNCHANGED <<processVars, inputVars, docVars, resultVars, calls, branches, error,
                   report, callVars>>

\* load_spacy(): spacy.load returns the pipeline, which is cached.
LoadOk ==
    /\ pc = "import"
    /\ cache = "empty"
    /\ loads' = OneMoreLoad
    /\ cache' = "Model"
    /\ nlp' = "Model"
    /\ pc' = "main"
    /\ UNCHANGED <<inputVars, docVars, resultVars, calls, branches, error, report,
                   callVars>>

\* load_spacy(): spacy.load raises OSError; the warning is shown, None is
\* returned and cached.
LoadMissing ==
    /\ pc = "import"
    /\ cache = "empty"
    /\ loads' = OneMoreLoad
    /\ cache' = "None"
    /\ nlp' = "None"
    /\ pc' = "main"
    /\ UNCHANGED <<inputVars, docVars, resultVars, calls, branches, error, report,
                   callVars>>

\* load_spacy(): spacy.load raises something that is not an OSError.  The
\* except clause does not take it, nothing is cached, the script run ends.
LoadRaises ==
    /\ pc = "import"
    /\ cache = "empty"
    /\ loads' = OneMoreLoad
    /\ pc' = "idle"
    /\ UNCHANGED <<cache, nlp, inputVars, docVars, resultVars, calls, branches, error,
                   report, callVars>>

\* main() with no file uploaded.
MainNoFile ==
    /\ pc = "main"
    /\ uploaded.kind = "none"
    /\ pc' = "idle"
    /\ UNCHANGED <<processVars, nlp, inputVars, docVars, resultVars, calls, branches,
                   error, report, callVars>>

\* The try block: extract_text_from_pdf returns the text.
ExtractOk ==
    /\ pc = "main"
    /\ uploaded.kind = "pdf"
    /\ doc' = uploaded.doc
    /\ text' = DocText(uploaded.doc)
    /\ pc' = "summary"
    /\ UNCHANGED <<processVars, nlp, inputVars, resultVars, calls, branches, error,
                   report, callVars>>

\* Mutant of ExtractFails: the except clause reports the error and does not
\* return.
ExtractFails_NoReturn ==
    /\ pc = "main"
    /\ uploaded.kind = "corrupt"
    /\ error' = [shown |-> TRUE, cause |-> uploaded.cause]
    /\ pc' = "summary"
    /\ UNCHANGED <<processVars, nlp, inputVars, docVars, resultVars, calls, branches,
                   report, callVars>>

\* The try block: extract_text_from_pdf raises; st.error shows the exception
\* and main returns.
ExtractFails ==
    /\ pc = "main"
    /\ uploaded.kind = "corrupt"
    /\ error' = [shown |-> TRUE, cause |-> uploaded.cause]
    /\ pc' = "idle"
    /\ UNCHANGED <<processVars, nlp, inputVars, docVars, resultVars, calls, branches,
                   report, callVars>>

\* if "... Document Summary" in features
SummaryStep ==
    /\ pc = "summary"
    /\ IF KeySummary \in features
       THEN /\ summary' = summarize_text(text, DefaultNumSentences, nlp, doc)
            /\ calls' = calls \cup {"summarize_text"}
            /\ branches' = branches \cup {Branch(nlp)}
       ELSE UNCHANGED <<summary, calls, branches>>
    /\ pc' = "clauses"
    /\ UNCHANGED <<processVars, nlp, inputVars, docVars, clauses, risks, entities,
                   compliance_issues, error, report, callVars>>

\* if "... Key Legal Clauses" in features, and the chart inside it
ClausesStep ==
    /\ pc = "clauses"
    /\ IF KeyClauses \in features
       THEN /\ clauses' = extract_key_clauses(text, nlp, doc)
            /\ calls' = calls \cup {"extract_key_clauses"}
                    \cup (IF KeyViz \in features /\ clauses' # <<>>
                          THEN {"visualize_key_clauses_frequency"} ELSE {})
            /\ branches' = branches \cup {Branch(nlp)}
       ELSE UNCHANGED <<clauses, calls, branches>>
    /\ pc' = "risks"
    /\ UNCHANGED <<processVars, nlp, inputVars, docVars, summary, risks, entities,
                   compliance_issues, error, report, callVars>>

\* if "... Risk Assessment" in features
RisksStep ==
    /\ pc = "risks"
    /\ IF KeyRisk \in features
       THEN /\ \E o \in RiskOrders(text, nlp, doc) :
                  risks' = detect_risks(text, nlp, doc, o)
            /\ calls' = calls \cup {"detect_risks"}
            /\ branches' = branches \cup {Branch(nlp)}
       ELSE UNCHANGED <<risks, calls, branches>>
    /\ pc' = "entities"
    /\ UNCHANGED <<processVars, nlp, inputVars, docVars, summary, clauses, entities,
                   compliance_issues, error, report, callVars>>

\* if "... Entity Recognition" in features
EntitiesStep ==
    /\ pc = "entities"
    /\ IF KeyEntity \in features
       THEN /\ \E found \in {FoundEntities(text, nlp, doc)} :
                   \E o \in EntityOrders(found, nlp) :
                       entities' = EntitiesOf(found, nlp, o)
            /\ calls' = calls \cup {"extract_legal_entities"}
            /\ branches' = branches \cup {Branch(nlp)}
       ELSE UNCHANGED <<entities, calls, branches>>
    /\ pc' = "compliance"
    /\ UNCHANGED <<processVars, nlp, inputVars, docVars, summary, clauses, risks,
                   compliance_issues, error, report, callVars>>

\* if "... Compliance Check" in features
ComplianceStep ==
    /\ pc = "compliance"
    /\ IF KeyCompliance \in features
       THEN /\ compliance_issues' = check_compliance(text)
            /\ calls' = calls \cup {"check_compliance"}
       ELSE UNCHANGED <<compliance_issues, calls>>
    /\ pc' = "report"
    /\ UNCHANGED <<processVars, nlp, inputVars, docVars, summary, clauses, risks,
                   entities, branches, error, report, callVars>>

\* if features: the report button, and generate_legal_report when it was
\* clicked.
ReportStep ==
    /\ pc = "report"
    /\ \E clicked \in BOOLEAN :
          IF features # {} /\ clicked
          THEN /\ report' = [generated |-> TRUE,
                             args |-> <<summary, clauses, risks, entities,
                                        compliance_issues>>]
               /\ calls' = calls \cup {"generate_legal_report"}
          ELSE UNCHANGED <<report, calls>>
    /\ pc' = "idle"
    /\ UNCHANGED <<processVars, nlp, inputVars, docVars, resultVars, branches, error,
                   callVars>>

Next ==
    \/ Rerun
    \/ LoadCached
    \/ LoadOk
    \/ LoadMissing
    \/ LoadRaises
    \/ MainNoFile
    \/ ExtractOk
    \/ ExtractFails
    \/ SummaryStep
    \/ ClausesStep
    \/ RisksStep
    \/ EntitiesStep
    \/ ComplianceStep
    \/ ReportStep

Spec == Init /\ [][Next]_vars

(***************************************************************************)
(* Specification FnSpec: the analysis functions called directly, on any    *)
(* document, in a process whose load has or has not found the model.       *)
(***************************************************************************)
FnInit ==
    /\ doc \in Docs
    /\ text = DocText(doc)
    /\ nlp \in {"Model", "None"}
    /\ cache = nlp
    /\ loads = 1
    /\ pc = "idle"
    /\ features = {}
    /\ uploaded = NoFile
    /\ summary = <<>>
    /\ clauses = <<>>
    /\ risks = <<>>
    /\ entities = <<>>
    /\ compliance_issues = <<>>
    /\ calls = {}
    /\ branches = {}
    /\ error = NoError
    /\ report = NoReport
    /\ called = "none"
    /\ num_sentences = DefaultNumSentences
    /\ used = <<>>
    /\ ret = <<>>

fixedInCalls ==
    <<processVars, nlp, pc, inputVars, docVars, resultVars, calls, branches, error,
      report>>

Call_extract_key_clauses ==
    /\ called = "none"
    /\ called' = "extract_key_clauses"
    /\ ret' = extract_key_clauses(text, nlp, doc)
    /\ UNCHANGED <<num_sentences, used, fixedInCalls>>

Call_summarize_text ==
    /\ called = "none"
    /\ called' = "summarize_text"
    /\ \E n \in Counts :
          /\ num_sentences' = n
          /\ used' = summarized_sentences(text, n, nlp, doc)
          /\ ret' = summarize_text(text, n, nlp, doc)
    /\ UNCHANGED fixedInCalls

Call_detect_risks ==
    /\ called = "none"
    /\ called' = "detect_risks"
    /\ \E o \in RiskOrders(text, nlp, doc) : ret' = detect_risks(text, nlp, doc, o)
    /\ UNCHANGED <<num_sentences, used, fixedInCalls>>

Call_extract_legal_entities ==
    /\ called = "none"
    /\ called' = "extract_legal_entities"
    /\ \E found \in {FoundEntities(text, nlp, doc)} :
          \E o \in EntityOrders(found, nlp) : ret' = EntitiesOf(found, nlp, o)
    /\ UNCHANGED <<num_sentences, used, fixedInCalls>>

Call_check_compliance ==
    /\ called = "none"
    /\ called' = "check_compliance"
    /\ ret' = check_compliance(text)
    /\ UNCHANGED <<num_sentences, used, fixedInCalls>>

\* The caller is done with the result.
Return ==
    /\ called # "none"
    /\ called' = "none"
    /\ num_sentences' = DefaultNumSentences
    /\ used' = <<>>
    /\ ret' = <<>>
    /\ UNCHANGED fixedInCalls

FnNext ==
    \/ Call_extract_key_clauses
    \/ Call_summarize_text
    \/ Call_detect_risks
    \/ Call_extract_legal_entities
    \/ Call_check_compliance
    \/ Return

FnSpec == FnInit /\ [][FnNext]_vars

(***************************************************************************)
(* The properties.                                                         *)
(***************************************************************************)
NoDuplicates(xs) == Cardinality(Elems(xs)) = Len(xs)

\* The sentences of the document whose trimmed text is longer than 10
\* characters, in document order: regex-split pieces in the fallback, the
\* pipeline's sentences with the model.
QualifyingSentences ==
    IF nlp = "None"
    THEN LET pieces  == re_split_sentences(text)
             Long(s) == Len(Strip(s)) > 10
             kept    == SelectSeq(pieces, Long)
         IN  [i \in 1..Len(kept) |-> Strip(kept[i])]
    ELSE LET Long(sent) == Len(Strip(SpanText(sent))) > 10
             kept       == SelectSeq(doc.sents, Long)
         IN  [i \in 1..Len(kept) |-> Strip(SpanText(kept[i]))]

FirstOf(xs, n) == SubSeq(xs, 1, IF n < Len(xs) THEN n ELSE Len(xs))

\* C1: in both modes extract_key_clauses returns at most 10 strings, each
\* longer than 10 characters after trimming, and they are the first
\* qualifying sentences of the document in document order.
C1_ClausesLongInOrder ==
    called = "extract_key_clauses" =>
        /\ Len(ret) <= 10
        /\ \A i \in 1..Len(ret) : Len(Strip(ret[i])) > 10
        /\ ret = FirstOf(QualifyingSentences, 10)

\* C2: for every integer count N, summarize_text returns the content of at
\* most N sentences (of none when N is negative), of all of them when fewer
\* than N are available, and in the fallback of the first N qualifying
\* sentences in document order.
C2_SummaryAtMostN ==
    called = "summarize_text" =>
        LET n     == IF num_sentences < 0 THEN 0 ELSE num_sentences
            avail == IF nlp = "None" THEN Len(QualifyingSentences) ELSE Len(doc.sents)
        IN  /\ Len(used) <= n
            /\ avail < n => Len(used) = avail
            /\ nlp = "None" =>
                  /\ used = FirstOf(QualifyingSentences, n)
                  /\ ret = Join(<<".", " ">>, used)

\* The messages of the five compliance rules, in rule order.
IssueOrder ==
    << "Missing governing law or jurisdiction clause",
       "No termination clause found",
       "No confidentiality or proprietary information clause",
       "Liability terms not clearly defined",
       "Document may lack proper signature requirements" >>

InLower(w) == Contains(Lower(text), w)

\* Whether rule k's condition holds on the lowercased text.
RuleHolds(k) ==
    CASE k = 1 -> ~InLower(<<"g", "o", "v", "e", "r", "n", "i", "n", "g", " ", "l", "a", "w">>) /\ ~InLower(<<"j", "u", "r", "i", "s", "d", "i", "c", "t", "i", "o", "n">>)
      [] k = 2 -> ~InLower(<<"t", "e", "r", "m", "i", "n", "a", "t", "i", "o", "n">>)
      [] k = 3 -> ~InLower(<<"c", "o", "n", "f", "i", "d", "e", "n", "t", "i", "a", "l">>) /\ ~InLower(<<"p", "r", "o", "p", "r", "i", "e", "t", "a", "r", "y">>)
      [] k = 4 -> ~InLower(<<"l", "i", "a", "b", "i", "l", "i", "t", "y">>)
      [] k = 5 -> ~InLower(<<"s", "i", "g", "n", "a", "t", "u", "r", "e">>) /\ ~InLower(<<"s", "i", "g", "n", "e", "d">>)

IssueIndex(msg) == CHOOSE k \in 1..5 : IssueOrder[k] = msg

\* C3: check_compliance returns exactly the messages of the rules whose
\* condition holds on the lowercased text, each once, in rule order; all
\* five for the empty text, none for a text with all five phrase groups.
C3_ComplianceRules ==
    called = "check_compliance" =>
        /\ \A k \in 1..5 : RuleHolds(k) <=> IssueOrder[k] \in Elems(ret)
        /\ Elems(ret) \subseteq Elems(IssueOrder)
        /\ NoDuplicates(ret)
        /\ \A i, j \in 1..Len(ret) : i < j => IssueIndex(ret[i]) < IssueIndex(ret[j])
        /\ text = <<>> => ret = IssueOrder
        /\ (/\ InLower(<<"g", "o", "v", "e", "r", "n", "i", "n", "g", " ", "l", "a", "w">>) /\ InLower(<<"t", "e", "r", "m", "i", "n", "a", "t", "i", "o", "n">>)
            /\ InLower(<<"c", "o", "n", "f", "i", "d", "e", "n", "t", "i", "a", "l">>) /\ InLower(<<"l", "i", "a", "b", "i", "l", "i", "t", "y">>)
            /\ InLower(<<"s", "i", "g", "n", "a", "t", "u", "r", "e">>)) => ret = <<>>

\* A text with all five phrase groups was checked and no issue was found.
C3_Witness ==
    /\ called = "check_compliance"
    /\ text # <<>>
    /\ ret = <<>>

ExampleDate == <<"0", "1", "/", "0", "2", "/", "2", "0", "2", "0">>

ExampleAmount == <<"$", "5", "0", "0", ".", "0", "0">>

\* The terms of the example text that are in the vocabulary.
ExampleTerms ==
    {<<"c", "o", "n", "t", "r", "a", "c", "t">>, <<"l", "i", "a", "b", "i", "l", "i", "t", "y">>, <<"t", "e", "r", "m", "i", "n", "a", "t", "i", "o", "n">>, <<"j", "u", "r", "i", "s", "d", "i", "c", "t", "i", "o", "n">>, <<"g", "o", "v", "e", "r", "n", "i", "n", "g", " ", "l", "a", "w">>}

OnExample ==
    /\ called = "extract_legal_entities"
    /\ nlp = "None"
    /\ text = SpecExampleText

\* C4: in the fallback, on the example text DATES contains "01/02/2020",
\* MONETARY contains "$500.00" and LEGAL_TERMS contains "contract",
\* "liability", "termination", "jurisdiction", "governing law" and
\* "confidential"; LEGAL_TERMS holds every vocabulary term contained in the
\* lowercased text.
C4_ExampleEntities ==
    /\ OnExample =>
          /\ ExampleDate \in Elems(ret.DATES)
          /\ ExampleAmount \in Elems(ret.MONETARY)
          /\ ExampleTerms \cup {<<"c", "o", "n", "f", "i", "d", "e", "n", "t", "i", "a", "l">>} \subseteq Elems(ret.LEGAL_TERMS)
    /\ (called = "extract_legal_entities" /\ nlp = "None") =>
          LET text_lower == Lower(text)
          IN  \A k \in 1..Len(legal_terms) :
                  Contains(text_lower, legal_terms[k])
                      => legal_terms[k] \in Elems(ret.LEGAL_TERMS)

\* C4 as amended: the same without "confidential", which is not one of the
\* eight vocabulary terms and is never reported; LEGAL_TERMS holds exactly
\* the vocabulary terms contained in the lowercased text.
C4_ExampleEntitiesAmended ==
    /\ OnExample =>
          /\ ExampleDate \in Elems(ret.DATES)
          /\ ExampleAmount \in Elems(ret.MONETARY)
          /\ Elems(ret.LEGAL_TERMS) = ExampleTerms
          /\ <<"c", "o", "n", "f", "i", "d", "e", "n", "t", "i", "a", "l">> \notin Elems(ret.LEGAL_TERMS)
    /\ (called = "extract_legal_entities" /\ nlp = "None") =>
          LET text_lower == Lower(text)
              contained  == {j \in 1..Len(legal_terms) : Contains(text_lower, legal_terms[j])}
          IN  /\ Len(legal_terms) = 8
              /\ Elems(ret.LEGAL_TERMS) = {legal_terms[k] : k \in contained}

\* The fallback extraction has run on the example text.
C4_Witness == OnExample /\ Len(ret.LEGAL_TERMS) = 5

BucketKeys == {"PERSONS", "ORGANIZATIONS", "DATES", "MONETARY", "LEGAL_TERMS"}

\* The risk vocabulary terms contained in the lowercased text.
RiskTermsContained == {w \in Elems(RISK_WORDS) : InLower(w)}

\* C6: detect_risks returns a duplicate-free collection of terms of the
\* 10-term risk vocabulary, each a substring of the lowercased text: exactly
\* the contained terms in the fallback, a subset of them with the model, and
\* nothing when the text contains no term.
C6_RisksContained ==
    called = "detect_risks" =>
        /\ Len(RISK_WORDS) = 10
        /\ NoDuplicates(ret)
        /\ Elems(ret) \subseteq RiskTermsContained
        /\ nlp = "None" => Elems(ret) = RiskTermsContained
        /\ RiskTermsContained = {} => ret = <<>>

\* With the model, a contained term that is no token of the text was left
\* out while another was reported.
C6_Witness ==
    /\ called = "detect_risks"
    /\ nlp = "Model"
    /\ ret # <<>>
    /\ Elems(ret) # RiskTermsContained

\* No qualifying sentence (none longer than 10 characters after trimming),
\* no vocabulary term and no regex match.
NothingToFind ==
    /\ QualifyingSentences = <<>>
    /\ RiskTermsContained = {}
    /\ \A k \in 1..Len(legal_terms) : ~InLower(legal_terms[k])
    /\ findall_dates(text) = <<>>
    /\ findall_money(text) = <<>>

EmptyResult ==
    /\ called = "extract_key_clauses" => ret = <<>>
    /\ called = "summarize_text" => ret = <<>>
    /\ called = "detect_risks" => ret = <<>>
    /\ called = "extract_legal_entities" =>
          /\ DOMAIN ret = BucketKeys
          /\ \A key \in BucketKeys : ret[key] = <<>>

\* C7: on the empty text, or a text with no qualifying sentence, no
\* vocabulary term and no regex match, extract_key_clauses, summarize_text,
\* extract_legal_entities and detect_risks each return an empty result.
C7_EmptyResults ==
    (text = <<>> \/ NothingToFind) => EmptyResult

\* The entity label a bucket is filled from with the model.
LabelOf(key) ==
    CASE key = "PERSONS"       -> "PERSON"
      [] key = "ORGANIZATIONS" -> "ORG"
      [] key = "DATES"         -> "DATE"
      [] key = "MONETARY"      -> "MONEY"
      [] key = "LEGAL_TERMS"   -> "no label"

\* The texts of the spans the pipeline reports under a bucket's label.
SpansLabelled(key) ==
    {doc.ents[i].text : i \in {j \in 1..Len(doc.ents) : doc.ents[j].label_ = LabelOf(key)}}

\* The trimmed text of the sentences of more than 10 tokens, in document
\* order.
ManyTokenSentences ==
    LET many == {i \in 1..Len(doc.sents) : Len(doc.sents[i]) > 10}
        F[i \in 0..Len(doc.sents)] ==
            IF i = 0 THEN <<>>
            ELSE IF i \in many THEN Append(F[i - 1], Strip(SpanText(doc.sents[i])))
                                ELSE F[i - 1]
    IN  F[Len(doc.sents)]

\* C7 as amended: on such a text detect_risks returns the empty list in both
\* modes, and all four functions return an empty result on the empty text
\* and in the fallback.  With the model loaded, summarize_text returns the
\* text of min(N, number of sentences) sentences of the document joined by
\* single spaces, whatever their length; every bucket of
\* extract_legal_entities holds only spans the pipeline reports under the
\* bucket's label, so it is empty when there is none, and LEGAL_TERMS is
\* empty; extract_key_clauses returns the first 10 sentences of more than 10
\* tokens, so the empty list when no sentence has more than 10 tokens.
C7_EmptyResultsAmended ==
    (text = <<>> \/ NothingToFind) =>
        /\ (text = <<>> \/ nlp = "None") => EmptyResult
        /\ called = "detect_risks" => ret = <<>>
        /\ (called = "summarize_text" /\ nlp = "Model") =>
              LET n     == IF num_sentences < 0 THEN 0 ELSE num_sentences
                  count == IF n < Len(doc.sents) THEN n ELSE Len(doc.sents)
              IN  /\ Len(used) = count
                  /\ \A k \in 1..Len(used) :
                         \E i \in 1..Len(doc.sents) : used[k] = SpanText(doc.sents[i])
                  /\ ret = Join(<<" ">>, used)
                  /\ count = 0 => ret = <<>>
        /\ (called = "extract_legal_entities" /\ nlp = "Model") =>
              /\ DOMAIN ret = BucketKeys
              /\ ret.LEGAL_TERMS = <<>>
              /\ \A key \in BucketKeys :
                     /\ Elems(ret[key]) \subseteq SpansLabelled(key)
                     /\ SpansLabelled(key) = {} => ret[key] = <<>>
        /\ (called = "extract_key_clauses" /\ nlp = "Model") =>
              /\ ret = FirstOf(ManyTokenSentences, 10)
              /\ (\A i \in 1..Len(doc.sents) : Len(doc.sents[i]) <= 10) => ret = <<>>

\* The fallback summarised a non-empty text with nothing to find.
C7_Witness ==
    /\ called = "summarize_text"
    /\ nlp = "None"
    /\ text # <<>>
    /\ NothingToFind
    /\ num_sentences > 0

\* C8: spacy.load is attempted at most once in the process, every analysis
\* call takes the branch of the mode that load selected, and no load ends a
\* script run with an exception: a run that has ended has been through
\* "nlp = load_spacy()".
C8_LoadAtMostOnce ==
    /\ loads <= 1
    /\ cache # "empty" => branches \subseteq {Branch(cache)}
    /\ cache = "empty" => branches = {}
    /\ (pc = "idle" /\ loads > 0) => nlp # "unset"

AnalysisPcs == {"summary", "clauses", "risks", "entities", "compliance", "report"}

\* C9: when extracting the text raises, the error is reported with its
\* cause and the run ends there: no analysis function and no report
\* generation is called for that upload, and no result is produced.
C9_ExtractionFailureAborts ==
    /\ uploaded.kind = "corrupt" =>
          /\ pc \notin AnalysisPcs
          /\ calls = {}
          /\ ~report.generated
          /\ summary = <<>> /\ clauses = <<>> /\ risks = <<>>
          /\ DOMAIN entities = {} /\ compliance_issues = <<>>
    /\ error.shown =>
          /\ uploaded.kind = "corrupt"
          /\ error.cause = uploaded.cause
          /\ pc = "idle"

\* A run with every feature selected ended at the failed extraction.
C9_Witness ==
    /\ error.shown
    /\ features = FeatureOptions
    /\ pc = "idle"

\* C10: once the dispatch of a run on an extracted document is done, each
\* selected option's analysis has been called and each unselected one has
\* not, its result still empty.
C10_SelectedFeaturesRun ==
    pc = "report" =>
        /\ OptSummary \in features <=> "summarize_text" \in calls
        /\ OptClauses \in features <=> "extract_key_clauses" \in calls
        /\ OptRisk \in features <=> "detect_risks" \in calls
        /\ OptEntity \in features <=> "extract_legal_entities" \in calls
        /\ OptCompliance \in features <=> "check_compliance" \in calls
        /\ (OptViz \in features /\ OptClauses \in features /\ clauses # <<>>)
               <=> "visualize_key_clauses_frequency" \in calls
        /\ OptSummary \notin features => summary = <<>>
        /\ OptClauses \notin features => clauses = <<>>
        /\ OptRisk \notin features => risks = <<>>
        /\ OptEntity \notin features => DOMAIN entities = {}
        /\ OptCompliance \notin features => compliance_issues = <<>>

=============================================================================
